---------------------------- MODULE Spec2Model ----------------------------
(* A model of npcli (src/npcli/npcli.py): the free-variable analyzer       *)
(* (get_names / get_names_rec / uses_stdin), the data loader (read_data),  *)
(* the context builder and pipeline (run, main) and the sequential         *)
(* evaluator (multiline_eval).                                             *)
(*                                                                         *)
(* Expression texts are sequences of lexical tokens wrapped as a Python    *)
(* str object, [type |-> "str", toks |-> <<...>>]; streams are sequences   *)
(* of one-character strings.  The library pieces the program calls         *)
(* (ast.parse, exec/eval, numpy) are modelled for the grammar and value    *)
(* subset listed with each operator; the AST is the Python 2.7 one the     *)
(* source is written against (ast.Index, ast.Num, Call.keywords).          *)
EXTENDS Integers, Sequences, FiniteSets, TLC

VARIABLES pc, args, mi, module_dict, context, names, stdin_read, index,
          result, stdout, trace, error

vars == <<pc, args, mi, module_dict, context, names, stdin_read, index,
          result, stdout, trace, error>>

-----------------------------------------------------------------------------
(* Bounds of the model.                                                    *)

\* most file arguments (args.data_sources) on a command line
MaxFiles == 2
\* most --module options on a command line
MaxModules == 1

-----------------------------------------------------------------------------
(* Lexical tokens.                                                         *)

Punct == {"(", ")", "[", "]", ".", ",", "=", "+", "-", "*", "{", "}", "\n"}

\* the number literals of the texts, with their values
NumVal == [t \in {"0", "1", "2", "5"} |->
             CASE t = "0" -> 0 [] t = "1" -> 1 [] t = "2" -> 2 [] t = "5" -> 5]

IsNum(t) == t \in DOMAIN NumVal

IsName(t) == t \notin Punct /\ ~IsNum(t)

Str(toks) == [type |-> "str", toks |-> toks]

-----------------------------------------------------------------------------
(* ast.parse, for the grammar                                              *)
(*   module  ::= [ stmt { NEWLINE stmt } ]                                 *)
(*   stmt    ::= NAME "=" expr | expr                                      *)
(*   expr    ::= term { ("+" | "-") term }                                 *)
(*   term    ::= unary { "*" unary }                                       *)
(*   unary   ::= "-" unary | atom { trailer }                              *)
(*   trailer ::= "." NAME | "(" [ arg { "," arg } ] ")" | "[" expr "]"     *)
(*   arg     ::= NAME "=" expr | expr                                      *)
(*   atom    ::= NAME | NUMBER | "{" "}"                                   *)
(* Every parse result is [ok, node, pos]: pos is the next unread token.    *)

NoNode == [type |-> "None"]

Fail == [ok |-> FALSE, node |-> NoNode, pos |-> 0]

Ok(node, pos) == [ok |-> TRUE, node |-> node, pos |-> pos]

At(t, i) == IF i >= 1 /\ i <= Len(t) THEN t[i] ELSE "<EOF>"

NoArgs == [type |-> "arguments", args |-> <<>>, keywords |-> <<>>]

\* The recursive-descent parser, one rule of the grammar a case: Parse(rule,
\* t, i, acc) reads rule from token i of t.  acc is what the rule has read
\* so far: the statements before this one ("body"), the left operand
\* ("expr_rest", "term_rest"), the expression the trailers follow
\* ("trailers"), the arguments before this one ("args").
\* "args" reads the arguments after "(" up to and over the closing ")":
\* positional ones into args, NAME "=" expr ones into keywords; a positional
\* argument after a keyword one is a syntax error.
RECURSIVE Parse(_, _, _, _)
Parse(rule, t, i, acc) ==
    CASE rule = "body" ->
            LET s == Parse("stmt", t, i, NoNode) IN
            IF ~s.ok THEN Fail
            ELSE IF s.pos = Len(t) + 1
            THEN Ok([type |-> "Module", body |-> Append(acc, s.node)], s.pos)
            ELSE IF At(t, s.pos) = "\n"
            THEN Parse("body", t, s.pos + 1, Append(acc, s.node))
            ELSE Fail
      [] rule = "stmt" ->
            IF IsName(At(t, i)) /\ At(t, i + 1) = "=" THEN
                LET e == Parse("expr", t, i + 2, NoNode) IN
                IF e.ok
                THEN Ok([type |-> "Assign",
                         targets |-> <<[type |-> "Name", id |-> At(t, i)]>>,
                         value |-> e.node], e.pos)
                ELSE Fail
            ELSE
                LET e == Parse("expr", t, i, NoNode) IN
                IF e.ok THEN Ok([type |-> "Expr", value |-> e.node], e.pos)
                ELSE Fail
      [] rule = "expr" ->
            LET l == Parse("term", t, i, NoNode) IN
            IF l.ok THEN Parse("expr_rest", t, l.pos, l.node) ELSE Fail
      [] rule = "expr_rest" ->
            IF At(t, i) \in {"+", "-"} THEN
                LET r == Parse("term", t, i + 1, NoNode) IN
                IF r.ok
                THEN Parse("expr_rest", t, r.pos,
                         [type |-> "BinOp", left |-> acc,
                          op |-> IF At(t, i) = "+" THEN "Add" ELSE "Sub",
                          right |-> r.node])
                ELSE Fail
            ELSE Ok(acc, i)
      [] rule = "term" ->
            LET u == Parse("unary", t, i, NoNode) IN
            IF u.ok THEN Parse("term_rest", t, u.pos, u.node) ELSE Fail
      [] rule = "term_rest" ->
            IF At(t, i) = "*" THEN
                LET u == Parse("unary", t, i + 1, NoNode) IN
                IF u.ok
                THEN Parse("term_rest", t, u.pos,
                         [type |-> "BinOp", left |-> acc, op |-> "Mult",
                          right |-> u.node])
                ELSE Fail
            ELSE Ok(acc, i)
      [] rule = "unary" ->
            IF At(t, i) = "-" THEN
                LET u == Parse("unary", t, i + 1, NoNode) IN
                IF u.ok
                THEN Ok([type |-> "UnaryOp", op |-> "USub", operand |-> u.node],
                        u.pos)
                ELSE Fail
            ELSE
                LET a == Parse("atom", t, i, NoNode) IN
                IF a.ok THEN Parse("trailers", t, a.pos, a.node) ELSE Fail
      [] rule = "atom" ->
            IF At(t, i) = "{" THEN
                IF At(t, i + 1) = "}"
                THEN Ok([type |-> "Dict", keys |-> <<>>, values |-> <<>>], i + 2)
                ELSE Fail
            ELSE IF IsNum(At(t, i))
            THEN Ok([type |-> "Num", n |-> NumVal[At(t, i)]], i + 1)
            ELSE IF IsName(At(t, i)) /\ At(t, i) # "<EOF>"
            THEN Ok([type |-> "Name", id |-> At(t, i)], i + 1)
            ELSE Fail
      [] rule = "trailers" ->
            IF At(t, i) = "." THEN
                IF IsName(At(t, i + 1)) /\ At(t, i + 1) # "<EOF>"
                THEN Parse("trailers", t, i + 2,
                         [type |-> "Attribute", value |-> acc,
                          attr |-> At(t, i + 1)])
                ELSE Fail
            ELSE IF At(t, i) = "(" THEN
                LET a == Parse("args", t, i + 1, NoArgs) IN
                IF a.ok
                THEN Parse("trailers", t, a.pos,
                         [type |-> "Call", func |-> acc, args |-> a.node.args,
                          keywords |-> a.node.keywords])
                ELSE Fail
            ELSE IF At(t, i) = "[" THEN
                LET e == Parse("expr", t, i + 1, NoNode) IN
                IF e.ok /\ At(t, e.pos) = "]"
                THEN Parse("trailers", t, e.pos + 1,
                         [type |-> "Subscript", value |-> acc,
                          slice |-> [type |-> "Index", value |-> e.node]])
                ELSE Fail
            ELSE Ok(acc, i)
      [] rule = "args" ->
            IF At(t, i) = ")" /\ acc = NoArgs THEN Ok(acc, i + 1)
            ELSE
                LET iskw == IsName(At(t, i)) /\ At(t, i + 1) = "="
                    e == Parse("expr", t, IF iskw THEN i + 2 ELSE i, NoNode)
                IN
                IF ~e.ok \/ (~iskw /\ acc.keywords # <<>>) THEN Fail
                ELSE
                    LET read ==
                            IF iskw
                            THEN [acc EXCEPT !.keywords =
                                     Append(@, [type |-> "keyword",
                                                arg |-> At(t, i),
                                                value |-> e.node])]
                            ELSE [acc EXCEPT !.args = Append(@, e.node)]
                    IN
                    IF At(t, e.pos) = ")" THEN Ok(read, e.pos + 1)
                    ELSE IF At(t, e.pos) = "," /\ At(t, e.pos + 1) # ")"
                    THEN Parse("args", t, e.pos + 1, read)
                    ELSE Fail

\* ast.parse(source): a str is parsed (a SyntaxError is ok = FALSE); an AST
\* node is handed back as it is, which is what compile(node, ...,
\* PyCF_ONLY_AST) does.
AstParse(source) ==
    IF source.type # "str" THEN Ok(source, 0)
    ELSE IF source.toks = <<>> THEN Ok([type |-> "Module", body |-> <<>>], 1)
    ELSE Parse("body", source.toks, 1, <<>>)

-----------------------------------------------------------------------------
(* The free-variable analyzer.  A result is [err, names]: err is "" or the *)
(* exception that ends the analysis.                                       *)

Names(s) == [err |-> "", names |-> s]

Raise(e) == [err |-> e, names |-> {}]

\* a | b on two analysis results: the first exception raised wins
Join(a, b) ==
    IF a.err # "" THEN a
    ELSE IF b.err # "" THEN b
    ELSE Names(a.names \cup b.names)

RECURSIVE UnionFrom(_, _)
UnionFrom(sets, k) ==
    IF k > Len(sets) THEN Names({})
    ELSE Join(sets[k], UnionFrom(sets, k + 1))

union(sets) == UnionFrom(sets, 1)

CallNamesNoArgs(func_names, arg_names) == func_names

\* line 27, the ast.Call branch: the names of the callee and of node.args
\* (node.keywords is not read)
CallNames(func_names, arg_names) == Join(func_names, union(arg_names))

\* line 50, the ast.Attribute branch: the names of node.value
AttributeNames(value_names, attr) == value_names

\* line 33, the ast.Assign branch: the names of node.value
AssignNames(value_names, target_names) == value_names

RECURSIVE get_names_rec(_)
get_names_rec(node) ==
    CASE node.type = "Call" ->
            \* get_names(arg) on each argument: ast.parse hands a node back
            \* as it is
            LET arg_names == [k \in 1..Len(node.args) |->
                                get_names_rec(AstParse(node.args[k]).node)]
            IN CallNames(get_names_rec(node.func), arg_names)
      [] node.type = "Module" ->
            union([k \in 1..Len(node.body) |-> get_names_rec(node.body[k])])
      [] node.type = "Expr" -> get_names_rec(node.value)
      [] node.type = "Assign" ->
            AssignNames(get_names_rec(node.value),
                        [k \in 1..Len(node.targets) |->
                           get_names_rec(node.targets[k])])
      [] node.type = "Index" -> get_names_rec(node.value)
      [] node.type = "Subscript" ->
            Join(get_names_rec(node.value), get_names_rec(node.slice))
      [] node.type = "BinOp" ->
            Join(get_names_rec(node.left), get_names_rec(node.right))
      [] node.type = "Compare" ->
            Join(get_names_rec(node.left),
                 union([k \in 1..Len(node.comparators) |->
                          get_names_rec(node.comparators[k])]))
      [] node.type = "UnaryOp" -> get_names_rec(node.operand)
      [] node.type = "Str" -> Names({})
      [] node.type = "Name" -> Names({node.id})
      [] node.type = "Attribute" ->
            AttributeNames(get_names_rec(node.value), node.attr)
      [] node.type = "Num" -> Names({})
      [] node.type \in {"Tuple", "List"} ->
            union([k \in 1..Len(node.elts) |-> get_names_rec(node.elts[k])])
      [] node.type = "comprehension" ->
            Join(Join(union([k \in 1..Len(node.ifs) |->
                               get_names_rec(node.ifs[k])]),
                      get_names_rec(node.iter)),
                 get_names_rec(node.target))
      [] node.type = "ListComp" ->
            Join(get_names_rec(node.elt),
                 union([k \in 1..Len(node.generators) |->
                          get_names_rec(node.generators[k])]))
      [] node.type = "Slice" ->
            LET children == <<node.lower, node.step, node.upper>>
                true_children == SelectSeq(children, LAMBDA x : x.type # "None")
            IN IF true_children # <<>>
               THEN union([k \in 1..Len(true_children) |->
                             get_names_rec(true_children[k])])
               ELSE Names({})
      [] node.type = "ExtSlice" ->
            IF node.dims # <<>>
            THEN union([k \in 1..Len(node.dims) |-> get_names_rec(node.dims[k])])
            ELSE Names({})
      [] OTHER -> Raise("ValueError")

\* line 18: the names of the parsed tree
TreeNames(tree) ==
    IF ~tree.ok THEN Raise("SyntaxError") ELSE get_names_rec(tree.node)

get_names(expr) == TreeNames(AstParse(expr))

UsesStdinOnlyD(ns) == "d" \in ns

\* line 72: the test of uses_stdin on the names get_names returned
UsesStdinTest(ns) == "d" \in ns \/ "data" \in ns

\* the outcome of uses_stdin as [err, names, uses], from get_names' result
StdinVerdict(r) ==
    [err |-> r.err, names |-> r.names,
     uses |-> r.err = "" /\ UsesStdinTest(r.names)]

uses_stdin(expr) == StdinVerdict(get_names(expr))

-----------------------------------------------------------------------------
(* Streams: a stream's content is a sequence of characters over            *)
(* digits, " ", "\n" and "x".                                              *)

DigitChars == <<"0", "1", "2", "3", "4", "5", "6", "7", "8", "9">>

IsDigit(c) == \E k \in 1..Len(DigitChars) : DigitChars[k] = c

DigitVal(c) == (CHOOSE k \in 1..Len(DigitChars) : DigitChars[k] = c) - 1

\* the byte of a character (ASCII)
Ord(c) ==
    IF IsDigit(c) THEN 48 + DigitVal(c)
    ELSE CASE c = " " -> 32 [] c = "\n" -> 10 [] c = "x" -> 120

\* str.splitlines(): the pieces between line breaks, without a last empty one
RECURSIVE SplitLinesFrom(_, _, _, _)
SplitLinesFrom(s, i, cur, acc) ==
    IF i > Len(s) THEN (IF cur # <<>> THEN Append(acc, cur) ELSE acc)
    ELSE IF s[i] = "\n" THEN SplitLinesFrom(s, i + 1, <<>>, Append(acc, cur))
    ELSE SplitLinesFrom(s, i + 1, Append(cur, s[i]), acc)

splitlines(s) == SplitLinesFrom(s, 1, <<>>, <<>>)

\* str.split(): the maximal runs of non-whitespace characters
RECURSIVE SplitFrom(_, _, _, _)
SplitFrom(s, i, cur, acc) ==
    IF i > Len(s) THEN (IF cur # <<>> THEN Append(acc, cur) ELSE acc)
    ELSE IF s[i] = " "
    THEN SplitFrom(s, i + 1, <<>>, IF cur # <<>> THEN Append(acc, cur) ELSE acc)
    ELSE SplitFrom(s, i + 1, Append(cur, s[i]), acc)

split(s) == SplitFrom(s, 1, <<>>, <<>>)

\* float(token) for a token over the stream alphabet: a run of digits is its
\* decimal value, anything holding another character is a ValueError
RECURSIVE DecimalFrom(_, _, _)
DecimalFrom(tok, i, acc) ==
    IF i > Len(tok) THEN acc
    ELSE DecimalFrom(tok, i + 1, 10 * acc + DigitVal(tok[i]))

float(tok) ==
    IF \A k \in 1..Len(tok) : IsDigit(tok[k])
    THEN [ok |-> TRUE, v |-> DecimalFrom(tok, 1, 0)]
    ELSE [ok |-> FALSE, v |-> 0]

-----------------------------------------------------------------------------
(* Values.  A number or an array carries its element type: "int" (Python   *)
(* int, numpy int64), "float" or "uint8".  An array is its shape (one or   *)
(* two dimensions) and its elements in row-major order.                    *)

Num(n, dtype) == [kind |-> "num", n |-> n, dtype |-> dtype]

Arr(shape, flat, dtype) ==
    [kind |-> "array", shape |-> shape, flat |-> flat, dtype |-> dtype]

Module(name) == [kind |-> "module", name |-> name]

Function(name) == [kind |-> "function", name |-> name]

Method(self, name) == [kind |-> "method", self |-> self, name |-> name]

DictValue == [kind |-> "dict"]

Exc(name) == [kind |-> "error", name |-> name]

numpy == Module("numpy")

builtins == Module("__builtin__")

IsExc(v) == v.kind = "error"

RECURSIVE Concat(_, _)
Concat(seqs, k) ==
    IF k > Len(seqs) THEN <<>> ELSE seqs[k] \o Concat(seqs, k + 1)

\* dict.update / item assignment on a name -> value mapping
Bind(d, k, v) == [x \in DOMAIN d \cup {k} |-> IF x = k THEN v ELSE d[x]]

EmptyDict == [x \in {} |-> 0]

-----------------------------------------------------------------------------
(* The data loader.  A result is [err, data, printed]: printed holds what  *)
(* print(data) wrote to standard output before the loader returned or      *)
(* raised.                                                                 *)

ReadDataKeepColumn(data) == data

\* lines 161-163: an array of exactly one column becomes 1-dimensional
FlattenSingleColumn(data) ==
    IF data.shape[2] = 1
    THEN Arr(<<data.shape[1]>>, data.flat, data.dtype)
    ELSE data

\* numpy.array(rows) and lines 160-163, for rows of floats (line 159 done):
\* rows of one length make a 2-dimensional array; no rows, or rows of
\* different lengths, make a 1-dimensional array (empty, or of row objects),
\* which is printed before data.shape[1] raises IndexError
FromRows(vals) ==
    IF vals = <<>> \/ \E r \in 1..Len(vals) : Len(vals[r]) # Len(vals[1])
    THEN [err |-> "IndexError",
          printed |-> <<[fmt |-> "print",
                         value |-> Arr(<<Len(vals)>>, Concat(vals, 1),
                                       IF vals = <<>> THEN "float" ELSE "object")]>>,
          data |-> Exc("IndexError")]
    ELSE [err |-> "",
          printed |-> <<[fmt |-> "print",
                         value |-> Arr(<<Len(vals), Len(vals[1])>>,
                                       Concat(vals, 1), "float")]>>,
          data |-> FlattenSingleColumn(Arr(<<Len(vals), Len(vals[1])>>,
                                           Concat(vals, 1), "float"))]

\* line 159, on the tokens of every line: a token float() rejects is a
\* ValueError before anything is printed
FromTokens(toks) ==
    IF \E r \in 1..Len(toks) : \E c \in 1..Len(toks[r]) : ~float(toks[r][c]).ok
    THEN [err |-> "ValueError", printed |-> <<>>, data |-> Exc("ValueError")]
    ELSE FromRows([r \in 1..Len(toks) |->
                     [c \in 1..Len(toks[r]) |-> float(toks[r][c]).v]])

\* line 159: every line of the stream split at whitespace
LineTokens(lines) == [r \in 1..Len(lines) |-> split(lines[r])]

\* line 157: numpy.fromstring(stream.read(), dtype="uint8"), an element a byte
FromString(stream) ==
    [err |-> "", printed |-> <<>>,
     data |-> Arr(<<Len(stream)>>, [k \in 1..Len(stream) |-> Ord(stream[k])],
                  "uint8")]

read_data(input_format, stream) ==
    IF input_format # "None" THEN FromString(stream)
    ELSE FromTokens(LineTokens(splitlines(stream)))

-----------------------------------------------------------------------------
(* exec and eval of the parsed statements against a context, for the       *)
(* grammar above.  numpy is modelled by numpy.sum, numpy.arange, the       *)
(* array method sum, indexing by an integer, and + - * with broadcasting;  *)
(* a helper module imported with --module has no attributes.  None of the  *)
(* names of the texts is a Python builtin, so a name the context does not  *)
(* hold is a NameError.                                                    *)

IsNumeric(v) == v.kind \in {"num", "array"}

ShapeOf(v) == IF v.kind = "num" THEN <<>> ELSE v.shape

FlatOf(v) == IF v.kind = "num" THEN <<v.n>> ELSE v.flat

\* a shape as (rows, columns), dimensions of length 1 added in front
Pad(shape) ==
    CASE Len(shape) = 0 -> <<1, 1>>
      [] Len(shape) = 1 -> <<1, shape[1]>>
      [] OTHER -> shape

\* numpy's result type: float wins; uint8 stays uint8 against uint8 and
\* against an integer scalar whose value fits a byte
ResultType(a, b) ==
    LET fits(v) == v.kind = "num" /\ v.dtype = "int" /\ v.n >= 0 /\ v.n <= 255 IN
    IF a.dtype = "float" \/ b.dtype = "float" THEN "float"
    ELSE IF a.dtype = "uint8" /\ (b.dtype = "uint8" \/ fits(b)) THEN "uint8"
    ELSE IF b.dtype = "uint8" /\ fits(a) THEN "uint8"
    ELSE "int"

Wrap(n, dtype) == IF dtype = "uint8" THEN n % 256 ELSE n

Shaped(shape, flat, dtype) ==
    IF shape = <<>> THEN Num(flat[1], dtype) ELSE Arr(shape, flat, dtype)

Apply2(op, x, y) ==
    CASE op = "Add" -> x + y
      [] op = "Sub" -> x - y
      [] op = "Mult" -> x * y

Arith(op, a, b) ==
    IF ~IsNumeric(a) \/ ~IsNumeric(b) THEN Exc("TypeError")
    ELSE
        LET sa == Pad(ShapeOf(a))
            sb == Pad(ShapeOf(b))
            ok == \A k \in 1..2 : sa[k] = sb[k] \/ sa[k] = 1 \/ sb[k] = 1
            R == IF sa[1] = 1 THEN sb[1] ELSE sa[1]
            C == IF sa[2] = 1 THEN sb[2] ELSE sa[2]
            rank == IF Len(ShapeOf(a)) > Len(ShapeOf(b))
                    THEN Len(ShapeOf(a)) ELSE Len(ShapeOf(b))
            dtype == ResultType(a, b)
            at(v, sv, i, j) ==
                FlatOf(v)[(IF sv[1] = 1 THEN 0 ELSE i) * sv[2]
                          + (IF sv[2] = 1 THEN 0 ELSE j) + 1]
            flat == [k \in 1..(R * C) |->
                       Wrap(Apply2(op, at(a, sa, (k - 1) \div C, (k - 1) % C),
                                       at(b, sb, (k - 1) \div C, (k - 1) % C)),
                            dtype)]
        IN
        IF ~ok THEN Exc("ValueError")
        ELSE Shaped(CASE rank = 0 -> <<>> [] rank = 1 -> <<C>> [] OTHER -> <<R, C>>,
                    flat, dtype)

Negate(v) ==
    IF ~IsNumeric(v) THEN Exc("TypeError")
    ELSE Shaped(ShapeOf(v),
                [k \in 1..Len(FlatOf(v)) |-> Wrap(0 - FlatOf(v)[k], v.dtype)],
                v.dtype)

RECURSIVE SumSeq(_, _)
SumSeq(s, k) == IF k > Len(s) THEN 0 ELSE s[k] + SumSeq(s, k + 1)

SumType(dtype) == IF dtype = "float" THEN "float" ELSE "int"

\* a.sum()
SumAll(a) == Num(SumSeq(a.flat, 1), SumType(a.dtype))

\* a.sum(axis) for an integer axis
SumAxis(a, axis) ==
    LET rank == Len(a.shape)
        ax == IF axis < 0 THEN axis + rank ELSE axis
    IN
    IF ax < 0 \/ ax >= rank THEN Exc("ValueError")
    ELSE IF rank = 1 THEN SumAll(a)
    ELSE
        LET R == a.shape[1]
            C == a.shape[2]
        IN
        IF ax = 0
        THEN Arr(<<C>>, [j \in 1..C |->
                           SumSeq([i \in 1..R |-> a.flat[(i - 1) * C + j]], 1)],
                 SumType(a.dtype))
        ELSE Arr(<<R>>, [i \in 1..R |->
                           SumSeq([j \in 1..C |-> a.flat[(i - 1) * C + j]], 1)],
                 SumType(a.dtype))

\* value.attr
GetAttr(v, attr) ==
    IF v = numpy /\ attr \in {"sum", "arange"} THEN Function("numpy." \o attr)
    ELSE IF v.kind = "array" /\ attr = "sum" THEN Method(v, "sum")
    ELSE Exc("AttributeError")

\* value[i]
GetItem(v, i) ==
    IF IsExc(i) THEN i
    ELSE IF v.kind = "dict" THEN
        (IF i.kind = "num" THEN Exc("KeyError") ELSE Exc("TypeError"))
    ELSE IF v.kind # "array" THEN Exc("TypeError")
    ELSE IF i.kind # "num" \/ i.dtype = "float" THEN Exc("IndexError")
    ELSE
        LET n == v.shape[1]
            k == IF i.n < 0 THEN i.n + n ELSE i.n
        IN
        IF k < 0 \/ k >= n THEN Exc("IndexError")
        ELSE IF Len(v.shape) = 1 THEN Num(v.flat[k + 1], v.dtype)
        ELSE Arr(<<v.shape[2]>>,
                 SubSeq(v.flat, k * v.shape[2] + 1, (k + 1) * v.shape[2]),
                 v.dtype)

KeywordNames(kws) == {kws[k].arg : k \in 1..Len(kws)}

Keyword(kws, name) == kws[CHOOSE k \in 1..Len(kws) : kws[k].arg = name].value

\* a "sum" call on array a with the axis given by position or keyword
SumCall(a, rest, kws) ==
    IF Len(rest) > 1 \/ ~(KeywordNames(kws) \subseteq {"axis"})
       \/ (Len(rest) = 1 /\ kws # <<>>) \/ Len(kws) > 1
    THEN Exc("TypeError")
    ELSE IF rest = <<>> /\ kws = <<>> THEN SumAll(a)
    ELSE
        LET axis == IF rest # <<>> THEN rest[1] ELSE kws[1].value IN
        IF axis.kind # "num" \/ axis.dtype = "float" THEN Exc("TypeError")
        ELSE SumAxis(a, axis.n)

\* numpy.asarray on a value of the model
AsArray(v) == IF v.kind = "num" THEN Arr(<<1>>, <<v.n>>, v.dtype) ELSE v

\* f(*as, **kws) on evaluated arguments; kws is a sequence of [arg, value]
Call(f, as, kws) ==
    IF f.kind = "method" THEN SumCall(f.self, as, kws)
    ELSE IF f = Function("numpy.sum") THEN
        LET byname == "a" \in KeywordNames(kws)
            others == SelectSeq(kws, LAMBDA k : k.arg # "a")
        IN
        IF Len(kws) # Cardinality(KeywordNames(kws)) THEN Exc("SyntaxError")
        ELSE IF (byname /\ as # <<>>) \/ (~byname /\ as = <<>>) THEN Exc("TypeError")
        ELSE
            LET a == IF byname THEN Keyword(kws, "a") ELSE as[1]
                rest == IF byname THEN <<>> ELSE Tail(as)
            IN
            IF ~IsNumeric(a) THEN Exc("TypeError")
            ELSE IF a.kind = "num" /\ rest = <<>> /\ others = <<>>
            THEN Num(a.n, SumType(a.dtype))
            ELSE SumCall(AsArray(a), rest, others)
    ELSE IF f = Function("numpy.arange") THEN
        IF Len(as) # 1 \/ kws # <<>> \/ as[1].kind # "num" THEN Exc("TypeError")
        ELSE LET n == IF as[1].n < 0 THEN 0 ELSE as[1].n IN
             Arr(<<n>>, [k \in 1..n |-> k - 1], as[1].dtype)
    ELSE Exc("TypeError")

\* the first exception among evaluated values, or "none"
FirstExc(vals) ==
    IF \E k \in 1..Len(vals) : IsExc(vals[k])
    THEN vals[CHOOSE k \in 1..Len(vals) :
                 IsExc(vals[k]) /\ \A j \in 1..(k - 1) : ~IsExc(vals[j])]
    ELSE [kind |-> "none"]

RECURSIVE Eval(_, _)
Eval(node, ctx) ==
    CASE node.type = "Name" ->
            IF node.id \in DOMAIN ctx THEN ctx[node.id] ELSE Exc("NameError")
      [] node.type = "Num" -> Num(node.n, "int")
      [] node.type = "Dict" -> DictValue
      [] node.type = "UnaryOp" ->
            LET v == Eval(node.operand, ctx) IN
            IF IsExc(v) THEN v ELSE Negate(v)
      [] node.type = "BinOp" ->
            LET l == Eval(node.left, ctx) IN
            IF IsExc(l) THEN l
            ELSE LET r == Eval(node.right, ctx) IN
                 IF IsExc(r) THEN r ELSE Arith(node.op, l, r)
      [] node.type = "Attribute" ->
            LET v == Eval(node.value, ctx) IN
            IF IsExc(v) THEN v ELSE GetAttr(v, node.attr)
      [] node.type = "Subscript" ->
            LET v == Eval(node.value, ctx) IN
            IF IsExc(v) THEN v ELSE GetItem(v, Eval(node.slice.value, ctx))
      [] node.type = "Call" ->
            LET f == Eval(node.func, ctx) IN
            IF IsExc(f) THEN f
            ELSE
                LET as == [k \in 1..Len(node.args) |-> Eval(node.args[k], ctx)]
                    kws == [k \in 1..Len(node.keywords) |->
                              [arg |-> node.keywords[k].arg,
                               value |-> Eval(node.keywords[k].value, ctx)]]
                    e == FirstExc(as \o [k \in 1..Len(kws) |-> kws[k].value])
                IN IF e.kind # "none" THEN e ELSE Call(f, as, kws)

\* exec of the statements body[k..] in order: [ctx, err], ctx holding the
\* bindings made before the first exception
RECURSIVE ExecFrom(_, _, _)
ExecFrom(body, k, ctx) ==
    IF k > Len(body) THEN [ctx |-> ctx, err |-> ""]
    ELSE
        LET v == Eval(body[k].value, ctx) IN
        IF IsExc(v) THEN [ctx |-> ctx, err |-> v.name]
        ELSE IF body[k].type = "Assign"
        THEN ExecFrom(body, k + 1, Bind(ctx, body[k].targets[1].id, v))
        ELSE ExecFrom(body, k + 1, ctx)

ExecReversed(code, ctx) ==
    LET n == Len(code.body) IN
    ExecFrom([k \in 1..n |-> code.body[n + 1 - k]], 1, Bind(ctx, "__builtins__", builtins))

ExecFreshNamespace(code, ctx) ==
    ExecFrom(code.body, 1, [k \in {"__builtins__"} |-> builtins])

\* exec(compile(module, 'file', 'exec'), context): the context gets the key
\* __builtins__, then the statements run in order
Exec(code, ctx) == ExecFrom(code.body, 1, Bind(ctx, "__builtins__", builtins))

-----------------------------------------------------------------------------
(* The inputs of the model.                                                *)

E_dsum == <<"d", ".", "sum", "(", ")">>
E_arange == <<"np", ".", "arange", "(", "5", ")">>
E_fxy == <<"f", "(", "x", ")", "[", "y", "]">>
E_method == <<"obj", ".", "method", "(", "z", ")">>
E_assign == <<"a", "=", "b", "+", "1">>
E_two == <<"y", "=", "x", "+", "1", "\n", "y", "*", "2">>
E_three == <<"y", "=", "x", "+", "1", "\n", "x", "=", "y", "*", "2", "\n",
             "x", "+", "y">>
E_kw == <<"np", ".", "sum", "(", "a", "=", "d", ")">>
E_kwdict == <<"d", ".", "sum", "(", "axis", "=", "{", "}", ")">>
E_dict == <<"d", "+", "{", "}">>
E_syntax == <<"1", "+">>
E_empty == <<>>
E_data == <<"y", "=", "data", "*", "2", "\n", "y", "-", "1">>
E_files == <<"d1", ".", "sum", "(", ")", "+", "data2", "[", "0", "]">>
E_lit == <<"1", "+", "1">>

Texts == {E_dsum, E_arange, E_fxy, E_method, E_assign, E_two, E_three, E_kw,
          E_kwdict, E_dict, E_syntax, E_empty, E_data, E_files, E_lit}

\* --module values: dotted names, as their components and dots
ModuleNames == {<<"np">>, <<"d1">>, <<"os", ".", "path">>}

RECURSIVE SeqsUpTo(_, _)
SeqsUpTo(S, n) ==
    IF n = 0 THEN {<<>>}
    ELSE LET shorter == SeqsUpTo(S, n - 1) IN
         shorter \cup {Append(q, x) : q \in shorter, x \in S}

OutputOptions ==
    {[raw |-> FALSE, raw_format |-> "None", repr |-> FALSE],
     [raw |-> TRUE, raw_format |-> "None", repr |-> FALSE],
     [raw |-> FALSE, raw_format |-> "uint8", repr |-> FALSE],
     [raw |-> FALSE, raw_format |-> "None", repr |-> TRUE]}

\* the namespaces argparse can hand to run (lines 94-96)
ArgSets ==
    {[expr |-> Str(t), module |-> m,
      data_sources |-> [k \in 1..n |-> "file" \o ToString(k)],
      input_format |-> f, raw |-> o.raw, raw_format |-> o.raw_format,
      repr |-> o.repr] :
        t \in Texts, m \in SeqsUpTo(ModuleNames, MaxModules), n \in 0..MaxFiles,
        f \in {"None", "uint8"}, o \in OutputOptions}

\* the decimal digits of a natural number
RECURSIVE Digits(_)
Digits(n) ==
    IF n < 10 THEN <<DigitChars[n + 1]>>
    ELSE Digits(n \div 10) \o <<DigitChars[(n % 10) + 1]>>

\* the number written at row r, column c of a table
Cell(r, c) == 10 * r + c

\* a table of R rows and C columns written as text: the numbers of a row
\* separated by a space, every row ended by a line break
RECURSIVE RenderRow(_, _, _)
RenderRow(r, c, C) ==
    IF c > C THEN <<"\n">>
    ELSE (IF c > 1 THEN <<" ">> ELSE <<>>) \o Digits(Cell(r, c)) \o RenderRow(r, c + 1, C)

RECURSIVE RenderFrom(_, _, _)
RenderFrom(r, R, C) ==
    IF r > R THEN <<>> ELSE RenderRow(r, 1, C) \o RenderFrom(r + 1, R, C)

Render(shape) == RenderFrom(1, shape[1], shape[2])

Shapes == {<<1, 1>>, <<3, 1>>, <<2, 2>>, <<1, 3>>}

S_ragged == <<"1", " ", "2", "\n", "3", "\n">>
S_text == <<"x", "\n">>
S_empty == <<>>

\* what standard input can hold
StdinStreams == {Render(sh) : sh \in Shapes} \cup {S_ragged, S_text, S_empty}

\* what a file argument can hold
FileStreams == {Render(<<3, 1>>), Render(<<2, 2>>), S_ragged}

-----------------------------------------------------------------------------
(* run and main.                                                           *)

\* trace is the history of what the process did to the world outside it, in
\* order: an event is an operation and the file argument (1-based) it is on,
\* 0 for standard input and standard output
Event(op, n) == [op |-> op, n |-> n]

\* the event of a stream read to its end by read_data, with what was read
\* and what read_data made of it
ReadEvent(op, n, stream, data) ==
    [op |-> op, n |-> n, stream |-> stream, data |-> data]

NoValue == [kind |-> "none"]

\* an uncaught exception: the process ends with a traceback
Abort(e) == pc' = "failed" /\ error' = e

\* where run goes once k file arguments are loaded (lines 116, 125)
AfterLoad(k) == IF k < Len(args.data_sources) THEN "files" ELSE "exec"

RECURSIVE TopNameFrom(_, _)
TopNameFrom(s, k) ==
    IF k > Len(s) \/ s[k] = "." THEN "" ELSE s[k] \o TopNameFrom(s, k + 1)

\* imp(s): the key is s.split('.')[0], the value __import__(s), the top-level
\* package of that name
imp(s) ==
    LET name == TopNameFrom(s, 1) IN [k \in {name} |-> Module(name)]

UpdateKeepOld(d, e) ==
    [x \in DOMAIN d \cup DOMAIN e |-> IF x \in DOMAIN d THEN d[x] ELSE e[x]]

\* dict.update(e): the bindings of e replace those of d
Update(d, e) ==
    [x \in DOMAIN d \cup DOMAIN e |-> IF x \in DOMAIN e THEN e[x] ELSE d[x]]

Init ==
    /\ pc = "import"
    /\ args \in ArgSets
    /\ mi = 0
    /\ module_dict = EmptyDict
    /\ context = EmptyDict
    /\ names = {}
    /\ stdin_read = FALSE
    /\ index = 0
    /\ result = NoValue
    /\ stdout = <<>>
    /\ trace = <<>>
    /\ error = ""

\* lines 102-103: one turn of the loop over args.module; whether the module
\* is found is the environment's
ImportModule ==
    /\ pc = "import"
    /\ mi < Len(args.module)
    /\ \E found \in BOOLEAN :
        IF found
        THEN /\ module_dict' = Update(module_dict, imp(args.module[mi + 1]))
             /\ mi' = mi + 1
             /\ UNCHANGED <<pc, error>>
        ELSE /\ Abort("ImportError")
             /\ UNCHANGED <<module_dict, mi>>
    /\ UNCHANGED <<args, context, names, stdin_read, index, result, stdout, trace>>

\* line 105
BindNp(d) == Bind(d, "np", numpy)

\* lines 105-108: np is bound and the context starts as a copy
BuildContext ==
    /\ pc = "import"
    /\ mi = Len(args.module)
    /\ module_dict' = BindNp(module_dict)
    /\ context' = module_dict'
    /\ pc' = "analyze"
    /\ UNCHANGED <<args, mi, names, stdin_read, index, result, stdout, trace, error>>

\* line 110: uses_stdin(args.expr) decides whether standard input is read
Analyze ==
    /\ pc = "analyze"
    /\ \E r \in {uses_stdin(args.expr)} :
        /\ names' = r.names
        /\ IF r.err # "" THEN Abort(r.err)
           ELSE /\ pc' = IF r.uses THEN "stdin" ELSE AfterLoad(0)
                /\ UNCHANGED error
    /\ UNCHANGED <<args, mi, module_dict, context, stdin_read, index, result,
                   stdout, trace>>

\* line 112
BindStdin(ctx, data) == Update(ctx, [k \in {"data", "d"} |-> data])

\* lines 111-112: standard input is read to its end and bound
ReadStdin ==
    /\ pc = "stdin"
    /\ \E stream \in StdinStreams :
       \E r \in {read_data(args.input_format, stream)} :
        /\ stdin_read' = TRUE
        /\ stdout' = stdout \o r.printed
        /\ trace' = trace \o <<ReadEvent("stdin.read", 0, stream, r.data)>>
                          \o [k \in 1..Len(r.printed) |-> Event("print", 0)]
        /\ IF r.err # ""
           THEN Abort(r.err) /\ UNCHANGED context
           ELSE /\ context' = BindStdin(context, r.data)
                /\ pc' = AfterLoad(0)
                /\ UNCHANGED error
    /\ UNCHANGED <<args, mi, module_dict, names, index, result>>

\* lines 119-120: the two names of the file argument at 0-based position k
FileNames(k) == <<"d" \o ToString(k + 1), "data" \o ToString(k + 1)>>

\* line 121
BindFile(ctx, k, data) ==
    Update(ctx, [x \in {FileNames(k)[1], FileNames(k)[2]} |-> data])

\* lines 116-121: one turn of the loop over args.data_sources: the file is
\* opened, read to its end and closed, and its data bound
LoadFile ==
    /\ pc = "files"
    /\ index < Len(args.data_sources)
    /\ \/ \* open(source) fails
          /\ Abort("IOError")
          /\ trace' = Append(trace, Event("open", index + 1))
          /\ UNCHANGED <<context, index, stdout>>
       \/ \E stream \in FileStreams :
          \E r \in {read_data(args.input_format, stream)} :
            /\ stdout' = stdout \o r.printed
            /\ trace' = trace \o <<Event("open", index + 1),
                                    ReadEvent("read", index + 1, stream, r.data)>>
                              \o [k \in 1..Len(r.printed) |-> Event("print", 0)]
                              \o <<Event("close", index + 1)>>
            /\ IF r.err # ""
               THEN Abort(r.err) /\ UNCHANGED <<context, index>>
               ELSE /\ context' = BindFile(context, index, r.data)
                    /\ index' = index + 1
                    /\ pc' = AfterLoad(index + 1)
                    /\ UNCHANGED error
    /\ UNCHANGED <<args, mi, module_dict, names, stdin_read, result>>

\* multiline_eval, lines 149-152: the text is parsed, its last statement's
\* value set aside, and the statements before it executed in the context
MultilineExec ==
    /\ pc = "exec"
    /\ \E tree \in {AstParse(args.expr)} :
        IF ~tree.ok THEN Abort("SyntaxError") /\ UNCHANGED <<context, trace>>
        ELSE IF tree.node.body = <<>>
        THEN \* tree.body[-1] at line 150
             Abort("IndexError") /\ UNCHANGED <<context, trace>>
        ELSE
            \E r \in {Exec([type |-> "Module",
                            body |-> SubSeq(tree.node.body, 1,
                                            Len(tree.node.body) - 1)],
                           context)} :
            /\ context' = r.ctx
            /\ trace' = Append(trace, Event("exec", 0))
            /\ IF r.err # "" THEN Abort(r.err)
               ELSE pc' = "eval" /\ UNCHANGED error
    /\ UNCHANGED <<args, mi, module_dict, names, stdin_read, index, result, stdout>>

\* lines 150, 153: eval of tree.body[-1].value in the context
EvalExpr(body, ctx) == Eval(body[Len(body)].value, ctx)

\* multiline_eval, line 153: the value of the last statement is returned
MultilineEval ==
    /\ pc = "eval"
    /\ \E v \in {EvalExpr(AstParse(args.expr).node.body, context)} :
        /\ trace' = Append(trace, Event("eval", 0))
        /\ IF IsExc(v) THEN Abort(v.name) /\ UNCHANGED result
           ELSE result' = v /\ pc' = "result" /\ UNCHANGED error
    /\ UNCHANGED <<args, mi, module_dict, context, names, stdin_read, index, stdout>>

\* numpy.array(value, dtype="uint8")
CastUint8(a) ==
    Arr(a.shape, [k \in 1..Len(a.flat) |-> a.flat[k] % 256], "uint8")

\* numpy.savetxt on a 1- or 2-dimensional array: one line a row, an element
\* of a 1-dimensional array being a row of its own
SaveTxt(a) ==
    IF Len(a.shape) = 1 THEN [k \in 1..a.shape[1] |-> <<a.flat[k]>>]
    ELSE [r \in 1..a.shape[1] |->
            SubSeq(a.flat, (r - 1) * a.shape[2] + 1, r * a.shape[2])]

\* lines 126-140: the result is made an array and formatted
Format ==
    /\ pc = "result"
    /\ \E wrapped \in {IF result.kind = "num"
                       THEN Arr(<<1>>, <<result.n>>, result.dtype)
                       ELSE result} :
        /\ result' = wrapped
        /\ IF wrapped.kind # "array"
           THEN \* len(result) at line 129
                Abort("TypeError")
           ELSE /\ pc' = "write"
                /\ UNCHANGED error
    /\ UNCHANGED <<args, mi, module_dict, context, names, stdin_read, index,
                   stdout, trace>>

\* the 1-tuple run returns (lines 131-140)
Parts ==
    IF args.raw THEN <<[fmt |-> "raw", value |-> result]>>
    ELSE IF args.raw_format # "None"
    THEN <<[fmt |-> "raw", value |-> CastUint8(result)]>>
    ELSE IF args.repr THEN <<[fmt |-> "repr", value |-> result]>>
    ELSE <<[fmt |-> "savetxt", value |-> SaveTxt(result)]>>

\* main, lines 143-145: every part is written to standard output and flushed
Write ==
    /\ pc = "write"
    /\ \E parts \in {Parts} :
        /\ stdout' = stdout \o parts
        /\ trace' = trace \o [k \in 1..Len(parts) |-> Event("write", 0)]
    /\ pc' = "done"
    /\ UNCHANGED <<args, mi, module_dict, context, names, stdin_read, index,
                   result, error>>

Next ==
    \/ ImportModule
    \/ BuildContext
    \/ Analyze
    \/ ReadStdin
    \/ LoadFile
    \/ MultilineExec
    \/ MultilineEval
    \/ Format
    \/ Write

Spec == Init /\ [][Next]_vars

-----------------------------------------------------------------------------
(* multiline_eval called on its own, with a context its caller built.      *)

\* the contexts multiline_eval is called with
EvalContexts ==
    {EmptyDict,
     [k \in {"x"} |-> Num(2, "int")],
     [k \in {"x"} |-> Num(5, "int")],
     [k \in {"b"} |-> Num(2, "int")],
     [k \in {"x", "y"} |-> IF k = "x" THEN Num(2, "int") ELSE Num(5, "int")],
     [k \in {"np", "d", "data"} |->
        IF k = "np" THEN numpy ELSE Arr(<<3>>, <<1, 2, 3>>, "float")]}

InitEval ==
    /\ pc = "exec"
    /\ \E t \in Texts :
        args = [expr |-> Str(t), module |-> <<>>, data_sources |-> <<>>,
                input_format |-> "None", raw |-> FALSE, raw_format |-> "None",
                repr |-> FALSE]
    /\ mi = 0
    /\ module_dict = EmptyDict
    /\ context \in EvalContexts
    /\ names = {}
    /\ stdin_read = FALSE
    /\ index = 0
    /\ result = NoValue
    /\ stdout = <<>>
    /\ trace = <<>>
    /\ error = ""

NextEval ==
    \/ MultilineExec
    \/ MultilineEval

SpecEval == InitEval /\ [][NextEval]_vars

-----------------------------------------------------------------------------
(* What the properties below are stated with.                              *)

\* the parsed text of the run
Tree == AstParse(args.expr)

\* the statements of the parsed text
Body == IF Tree.ok THEN Tree.node.body ELSE <<>>

\* the places of run after the analyzer has returned without an error
PostAnalysis == {"stdin", "files", "exec", "eval", "result", "write", "done"}

\* every identifier a tree refers to, through every child of every node
\* (keyword arguments included); attribute names and the targets of
\* assignments are not references
RECURSIVE Referenced(_)
Referenced(node) ==
    CASE node.type = "Name" -> {node.id}
      [] node.type \in {"Num", "Dict"} -> {}
      [] node.type = "Module" ->
            UNION {Referenced(node.body[k]) : k \in 1..Len(node.body)}
      [] node.type \in {"Expr", "Assign", "Attribute", "Index"} ->
            Referenced(node.value)
      [] node.type = "Subscript" ->
            Referenced(node.value) \cup Referenced(node.slice)
      [] node.type = "BinOp" ->
            Referenced(node.left) \cup Referenced(node.right)
      [] node.type = "UnaryOp" -> Referenced(node.operand)
      [] node.type = "Call" ->
            Referenced(node.func)
            \cup UNION {Referenced(node.args[k]) : k \in 1..Len(node.args)}
            \cup UNION {Referenced(node.keywords[k].value) :
                          k \in 1..Len(node.keywords)}

\* the kinds of the statement and expression nodes of a tree
RECURSIVE Kinds(_)
Kinds(node) ==
    {node.type} \cup
    CASE node.type \in {"Name", "Num", "Dict"} -> {}
      [] node.type = "Module" ->
            UNION {Kinds(node.body[k]) : k \in 1..Len(node.body)}
      [] node.type \in {"Expr", "Assign", "Attribute", "Index"} ->
            Kinds(node.value)
      [] node.type = "Subscript" -> Kinds(node.value) \cup Kinds(node.slice)
      [] node.type = "BinOp" -> Kinds(node.left) \cup Kinds(node.right)
      [] node.type = "UnaryOp" -> Kinds(node.operand)
      [] node.type = "Call" ->
            Kinds(node.func)
            \cup UNION {Kinds(node.args[k]) : k \in 1..Len(node.args)}
            \cup UNION {Kinds(node.keywords[k].value) :
                          k \in 1..Len(node.keywords)}

\* the node kinds get_names_rec has a branch for
Recognized ==
    {"Call", "Module", "Expr", "Assign", "Index", "Subscript", "BinOp",
     "Compare", "UnaryOp", "Str", "Name", "Attribute", "Num", "Tuple", "List",
     "comprehension", "ListComp", "Slice", "ExtSlice"}

\* the text has a call with a keyword argument somewhere
RECURSIVE HasKeyword(_)
HasKeyword(node) ==
    CASE node.type \in {"Name", "Num", "Dict"} -> FALSE
      [] node.type = "Module" ->
            \E k \in 1..Len(node.body) : HasKeyword(node.body[k])
      [] node.type \in {"Expr", "Assign", "Attribute", "Index"} ->
            HasKeyword(node.value)
      [] node.type = "Subscript" ->
            HasKeyword(node.value) \/ HasKeyword(node.slice)
      [] node.type = "BinOp" -> HasKeyword(node.left) \/ HasKeyword(node.right)
      [] node.type = "UnaryOp" -> HasKeyword(node.operand)
      [] node.type = "Call" ->
            \/ node.keywords # <<>>
            \/ HasKeyword(node.func)
            \/ \E k \in 1..Len(node.args) : HasKeyword(node.args[k])

\* the names the assignment statements of the text bind
AssignTargets ==
    {Body[k].targets[1].id : k \in {j \in 1..Len(Body) : Body[j].type = "Assign"}}

\* the places in trace of the events of some operations
Places(ops) == {k \in 1..Len(trace) : trace[k].op \in ops}

IntNum(n) == Num(n, "int")

\* the names "d" or "data" are among the names the analyzer returned
NamesStdin == "d" \in names \/ "data" \in names

\* what read_data returned for standard input, and for the n-th file
StdinData == trace[CHOOSE k \in Places({"stdin.read"}) : TRUE].data

FileData(n) == trace[CHOOSE k \in Places({"read"}) : trace[k].n = n].data

\* the names run binds after the modules and np
DataNames ==
    (IF stdin_read THEN {"d", "data"} ELSE {})
    \cup {"d" \o ToString(n) : n \in 1..Len(args.data_sources)}
    \cup {"data" \o ToString(n) : n \in 1..Len(args.data_sources)}

-----------------------------------------------------------------------------
(* The properties.                                                         *)

\* C1: in every run standard input is read only when uses_stdin(expr) is
\* true, and then before any file is opened; the files are opened, read and
\* closed one at a time in argument order; every load is over before the
\* expression is executed or evaluated; and the expression is evaluated
\* before anything is written to standard output.
C1_FixedOrder ==
    /\ Places({"stdin.read"}) # {} => uses_stdin(args.expr).uses
    /\ \A i \in Places({"stdin.read"}), j \in Places({"open"}) : i < j
    /\ \A i, j \in Places({"open", "read", "close"}) :
          i < j =>
            \/ trace[i].n < trace[j].n
            \/ /\ trace[i].n = trace[j].n
               /\ <<trace[i].op, trace[j].op>> \in
                    {<<"open", "read">>, <<"open", "close">>, <<"read", "close">>}
    /\ \A i \in Places({"stdin.read", "open", "read", "close"}),
          j \in Places({"exec", "eval"}) : i < j
    /\ \A i \in Places({"print", "write"}) :
          \E j \in Places({"eval"}) : j < i

\* C2: a text whose last statement is not an expression statement never
\* gives a value: multiline_eval fails on it.
C2_AssignmentFails ==
    (Tree.ok /\ Body # <<>> /\ Body[Len(Body)].type # "Expr")
        => (pc # "result" /\ result = NoValue)

\* C3: the statements before the last are executed in order, each seeing the
\* bindings of the earlier ones, and the value returned is that of the last
\* statement in the context they left: "y = x + 1; y * 2" binds y to x + 1
\* and returns 2 * (x + 1), which is 6 for x = 2; "y = x + 1; x = y * 2;
\* x + y" binds y to the old x + 1, then x to 2 * y, and returns 3 * y; a
\* text of one expression returns its value.
C3_Sequential ==
    /\ (pc \in {"eval", "result"} /\ args.expr = Str(E_two)) =>
          /\ context["y"] = IntNum(context["x"].n + 1)
          /\ pc = "result" => result = IntNum(2 * (context["x"].n + 1))
          /\ (pc = "result" /\ context["x"] = IntNum(2)) => result = IntNum(6)
    /\ (pc \in {"eval", "result"} /\ args.expr = Str(E_three)) =>
          /\ context["y"].n \in {3, 6}
          /\ context["x"] = IntNum(2 * context["y"].n)
          /\ pc = "result" => result = IntNum(3 * context["y"].n)
    /\ (pc = "result" /\ args.expr = Str(E_lit)) => result = IntNum(2)
    /\ (args.expr = Str(E_two) /\ pc = "failed") => "x" \notin DOMAIN context

C3_Witness ==
    /\ pc = "result"
    /\ args.expr = Str(E_two)
    /\ context["x"] = IntNum(2)
    /\ context["y"] = IntNum(3)
    /\ result = IntNum(6)

\* C4: when the analyzer returns, the set it returns holds every identifier
\* the text refers to, those in keyword arguments of calls included.
C4_NoUnderReport ==
    pc \in PostAnalysis => Referenced(Tree.node) \subseteq names

C6_UsesStdin ==
    pc \in PostAnalysis =>
        /\ names = get_names(args.expr).names
        /\ (pc = "stdin" \/ stdin_read) <=> NamesStdin
        /\ args.expr = Str(E_dsum) => (pc = "stdin" \/ stdin_read)
        /\ args.expr = Str(E_arange) => (pc # "stdin" /\ ~stdin_read)

C6_Witness ==
    /\ pc = "exec"
    /\ args.expr = Str(E_data)
    /\ stdin_read
    /\ "d" \notin names

\* C7: in the context handed to the evaluator np is the numeric library; d
\* and data are the array read from standard input when it was read; d{n}
\* and data{n} are the array read from the n-th file argument; and a
\* requested module is bound under its top-level name unless np or a data
\* name took that name after it.
C7_LastWriteWins ==
    pc = "exec" =>
        /\ context["np"] = numpy
        /\ stdin_read => (context["d"] = StdinData /\ context["data"] = StdinData)
        /\ \A n \in 1..Len(args.data_sources) :
              /\ context["d" \o ToString(n)] = FileData(n)
              /\ context["data" \o ToString(n)] = FileData(n)
        /\ \A k \in 1..Len(args.module) :
              args.module[k][1] \notin DataNames \cup {"np"}
                  => context[args.module[k][1]] = Module(args.module[k][1])

C7_Witness ==
    /\ pc = "exec"
    /\ stdin_read
    /\ args.module = <<(<<"d1">>)>>
    /\ Len(args.data_sources) = 2
    /\ context["d1"] = FileData(1)
    /\ context["d1"].kind = "array"
    /\ context["data2"] = FileData(2)
    /\ context["d"] = context["data"]

\* C8: when the text holds a node of a kind the analyzer has no branch for,
\* run stops at the analyzer: standard input is not read, no file is
\* opened, nothing is executed or evaluated and nothing is written.
C8_AbortsBeforeData ==
    (Tree.ok /\ ~(Kinds(Tree.node) \subseteq Recognized)) =>
        /\ pc \notin PostAnalysis
        /\ ~stdin_read
        /\ trace = <<>>
        /\ stdout = <<>>
        /\ pc = "failed" => error \in {"ValueError", "ImportError"}

\* C9: read_data without an explicit datatype, on R lines of C numbers each,
\* returns the R numbers as a 1-dimensional array when C = 1 and otherwise
\* the R by C array whose entry (r, c) is the c-th number of line r.
C9_Shape ==
    \A k \in Places({"stdin.read", "read"}) :
        args.input_format = "None" =>
            \A R \in 1..3, C \in 1..3 :
                trace[k].stream = Render(<<R, C>>) =>
                    trace[k].data =
                        Arr(IF C = 1 THEN <<R>> ELSE <<R, C>>,
                            [i \in 1..(R * C) |->
                                Cell(((i - 1) \div C) + 1, ((i - 1) % C) + 1)],
                            "float")

C9_Witness ==
    /\ args.input_format = "None"
    /\ \E k \in Places({"stdin.read"}) :
          /\ trace[k].stream = Render(<<3, 1>>)
          /\ trace[k].data = Arr(<<3>>, <<11, 21, 31>>, "float")
    /\ \E k \in Places({"read"}) :
          /\ trace[k].stream = Render(<<2, 2>>)
          /\ trace[k].data = Arr(<<2, 2>>, <<11, 12, 21, 22>>, "float")

=============================================================================
